---- MODULE Spec2Model ----
(***************************************************************************)
(* State-machine model of the BI KPI framework: the three KPI engines      *)
(* (AnalystWorkloadKPI, FinancialPerformanceKPI, OperationalProcessingKPI) *)
(* working on private copies of the caller's tables.                       *)
(*                                                                         *)
(* A table (DataFrame) is a sequence of rows, a row is a record.           *)
(* Fixed-point conventions (pandas works on floats):                       *)
(*   complexity_weight, weighted_workload        in tenths                 *)
(*   every value the code passes through round(.., 2)   in hundredths      *)
(*   every value the code passes through round(.., 1)   in tenths          *)
(* An Optional value is a sequence of length <= 1 (<<>> is None).          *)
(***************************************************************************)
EXTENDS Integers, Sequences, FiniteSets, TLC

VARIABLES
    orders_df,          \* caller-owned table of purchase orders
    order_lines_df,     \* caller-owned table of order lines
    skus_df,            \* caller-owned SKU catalogue
    suppliers_df,       \* caller-owned supplier catalogue
    analysts_df,        \* caller-owned analyst catalogue
    invoices_df,        \* caller-owned table of processing records
    workload_system,    \* the AnalystWorkloadKPI instance
    financial_system,   \* the FinancialPerformanceKPI instance
    processing_system,  \* the OperationalProcessingKPI instance
    returns             \* per operation (and argument): the outputs returned so far

vars == <<orders_df, order_lines_df, skus_df, suppliers_df, analysts_df, invoices_df,
          workload_system, financial_system, processing_system, returns>>

caller_tables == <<orders_df, order_lines_df, skus_df, suppliers_df, analysts_df, invoices_df>>

-----------------------------------------------------------------------------
(* Bounds of the model *)

MaxOrders == 3
MaxSkus == 52
MaxSuppliers == 6
MaxInvoices == 2
MaxTrendWeeks == 54
MaxVolume == 4

\* the identifiers of the input tables, in sort order
AnalystIds == <<"AN001", "AN002">>
ProductCategories == <<"Bebidas", "Equipamiento">>
SupplierIds == <<"SUP0001", "SUP0002", "SUP0003", "SUP0004", "SUP0005", "SUP0006", "SUP0007">>

-----------------------------------------------------------------------------
(* Generic helpers: sequences as tables *)

Range(s) == {s[i] : i \in DOMAIN s}

SelectRows(df, keep(_)) == SelectSeq(df, keep)

SumSeq(df, val(_)) ==
    LET acc[i \in 0..Len(df)] == IF i = 0 THEN 0 ELSE acc[i - 1] + val(df[i])
    IN  acc[Len(df)]

\* sum of the values of the function f over the keys in S
RECURSIVE SumOver(_, _)
SumOver(f, S) ==
    IF S = {} THEN 0
    ELSE LET x == CHOOSE y \in S : TRUE IN f[x] + SumOver(f, S \ {x})

IndexOf(seq, x) == CHOOSE i \in DOMAIN seq : seq[i] = x

\* the elements of S, a set of members of the sequence universe, in the order of universe
\* (the sorted group keys of a groupby)
GroupKeys(S, universe) ==
    [p \in 1..Cardinality(S) |->
        CHOOSE x \in S : Cardinality({y \in S : IndexOf(universe, y) < IndexOf(universe, x)}) = p - 1]

\* sort_values(ascending=False) of a table by its column val, equal values keeping their order
SortDescending(df, val(_)) ==
    LET rank(i) == 1 + Cardinality({j \in DOMAIN df :
                        val(df[j]) > val(df[i]) \/ (val(df[j]) = val(df[i]) /\ j < i)})
    IN  [p \in DOMAIN df |-> df[CHOOSE i \in DOMAIN df : rank(i) = p]]

MaxOf(S) == CHOOSE x \in S : \A y \in S : y <= x

RECURSIVE GCD(_, _)
GCD(a, b) == IF b = 0 THEN a ELSE GCD(b, a % b)

\* greatest common divisor of the non-negative column val of df (0 for an all-zero column)
GCDSeq(df, val(_)) ==
    LET acc[i \in 0..Len(df)] == IF i = 0 THEN 0 ELSE GCD(acc[i - 1], val(df[i]))
    IN  acc[Len(df)]

\* greatest common divisor of a set of non-negative integers (0 for the empty set)
RECURSIVE GCDOfSet(_)
GCDOfSet(S) ==
    IF S = {} THEN 0
    ELSE LET x == CHOOSE y \in S : TRUE IN GCD(x, GCDOfSet(S \ {x}))

CountRows(df, keep(_)) == Cardinality({i \in DOMAIN df : keep(df[i])})

\* numpy's round on a non-negative quotient num/den: nearest integer, ties to even
RoundHalfEven(num, den) ==
    LET q == num \div den
        r == num % den
    IN  IF 2 * r < den THEN q
        ELSE IF 2 * r > den THEN q + 1
        ELSE IF q % 2 = 0 THEN q ELSE q + 1

\* the columns of a table are the fields of its rows (a table without rows is taken
\* to have every column)
HasColumn(df, c) == df = <<>> \/ c \in DOMAIN df[1]

\* the KeyError pandas raises on the use of a column the table does not have
KeyError(c) == [raised |-> [type |-> "KeyError", key |-> c]]

-----------------------------------------------------------------------------
(* AnalystWorkloadKPI *)

COMPLEXITY_CATEGORIES ==
    << [category |-> "Muy Simple", min_val |-> 1,  max_val |-> <<5>>],
       [category |-> "Simple",     min_val |-> 6,  max_val |-> <<20>>],
       [category |-> "Moderado",   min_val |-> 21, max_val |-> <<50>>],
       [category |-> "Complejo",   min_val |-> 51, max_val |-> <<>>] >>   \* <<>> is float('inf')

CategoryNames == {COMPLEXITY_CATEGORIES[i].category : i \in DOMAIN COMPLEXITY_CATEGORIES}

\* in tenths: 1.0, 2.5, 5.0, 10.0
COMPLEXITY_WEIGHTS ==
    [c \in CategoryNames |->
        CASE c = "Muy Simple" -> 10
          [] c = "Simple"     -> 25
          [] c = "Moderado"   -> 50
          [] c = "Complejo"   -> 100]

\* (min_val <= num_skus < max_val)
InRangeStrictUpper(num_skus, cat) ==
    /\ cat.min_val <= num_skus
    /\ (cat.max_val = <<>> \/ num_skus < cat.max_val[1])

\* min_val <= num_skus <= max_val
InRange(num_skus, cat) ==
    /\ cat.min_val <= num_skus
    /\ (cat.max_val = <<>> \/ num_skus <= cat.max_val[1])

\* the first category of the dict whose range holds num_skus; 'Complejo' when none does
get_complexity(num_skus) ==
    LET hits == {i \in DOMAIN COMPLEXITY_CATEGORIES : InRange(num_skus, COMPLEXITY_CATEGORIES[i])}
    IN  IF hits = {} THEN "Complejo"
        ELSE COMPLEXITY_CATEGORIES[CHOOSE i \in hits : \A j \in hits : i <= j].category

\* attaches the columns complexity and complexity_weight to every row
_categorize_complexity(df) ==
    [i \in DOMAIN df |->
        [complexity        |-> get_complexity(df[i].num_skus),
         complexity_weight |-> COMPLEXITY_WEIGHTS[get_complexity(df[i].num_skus)]] @@ df[i]]

\* (no copy: the columns land in the caller's table)
AnalystWorkloadKPI_init_shared(df) ==
    IF ~HasColumn(df, "num_skus")
    THEN [caller |-> df, self |-> <<>>, raised |-> <<KeyError("num_skus")>>]
    ELSE [caller |-> _categorize_complexity(df), self |-> _categorize_complexity(df),
          raised |-> <<>>]

\* __init__: the caller's table and the instance's table afterwards, or the exception
\* raised (only the column num_skus is read)
AnalystWorkloadKPI_init(df) ==
    IF ~HasColumn(df, "num_skus")
    THEN [caller |-> df, self |-> <<>>, raised |-> <<KeyError("num_skus")>>]
    ELSE [caller |-> df, self |-> _categorize_complexity(df), raised |-> <<>>]

\* (nunique of num_skus in place of size)
complexity_dist_nunique(df) ==
    LET analysts == {df[i].analyst_id : i \in DOMAIN df}
        labels   == {df[i].complexity : i \in DOMAIN df}
    IN  [a \in analysts |->
            [c \in labels |->
                Cardinality({df[i].num_skus : i \in {j \in DOMAIN df :
                                df[j].analyst_id = a /\ df[j].complexity = c}})]]

\* groupby(['analyst_id', 'complexity']).size().unstack(fill_value=0):
\* one row per analyst of the data, one column per complexity label of the data
complexity_dist(df) ==
    LET analysts == {df[i].analyst_id : i \in DOMAIN df}
        labels   == {df[i].complexity : i \in DOMAIN df}
    IN  [a \in analysts |->
            [c \in labels |->
                CountRows(df, LAMBDA r : r.analyst_id = a /\ r.complexity = c)]]

\* groupby('analyst_id').agg(order_id count, num_skus sum, complexity_weight sum),
\* joined with the distribution, plus the two averages, rounded to 2 decimals; the
\* KeyError of groupby or agg when the table lacks analyst_id or order_id
calculate_workload_by_analyst_out(df) ==
    IF ~HasColumn(df, "analyst_id") THEN KeyError("analyst_id")
    ELSE IF ~HasColumn(df, "order_id") THEN KeyError("order_id")
    ELSE
    LET analysts == {df[i].analyst_id : i \in DOMAIN df}
        dist     == complexity_dist(df)
    IN  [a \in analysts |->
            LET rows    == SelectRows(df, LAMBDA r : r.analyst_id = a)
                tickets == Len(rows)
                skus    == SumSeq(rows, LAMBDA r : r.num_skus)
                load    == SumSeq(rows, LAMBDA r : r.complexity_weight)
            IN  [total_tickets         |-> tickets,
                 total_skus            |-> skus,
                 weighted_workload     |-> load,
                 dist                  |-> dist[a],
                 avg_skus_per_ticket   |-> IF skus >= 0 THEN RoundHalfEven(skus * 100, tickets)
                                           ELSE 0 - RoundHalfEven((0 - skus) * 100, tickets),
                 avg_complexity_weight |-> RoundHalfEven(load * 10, tickets)]]

\* the instance's table after a call of calculate_workload_by_analyst: not assigned
calculate_workload_by_analyst_self(df) == df

\* order_lines_df.merge(skus_df[['sku', 'category']], on='sku'): the lines whose sku is
\* in the catalogue, each with the category of its sku (sku is unique in skus_df)
lines_with_category(order_lines, skus) ==
    LET known == SelectRows(order_lines, LAMBDA l : \E k \in DOMAIN skus : skus[k].sku = l.sku)
    IN  [i \in DOMAIN known |->
            [order_id   |-> known[i].order_id,
             sku        |-> known[i].sku,
             line_total |-> known[i].line_total,
             category   |-> skus[CHOOSE k \in DOMAIN skus : skus[k].sku = known[i].sku].category]]

\* x.mode()[0]: the most frequent category of the lines, the first in sort order on a tie
mode_first(lines) ==
    LET count(c) == CountRows(lines, LAMBDA l : l.category = c)
        modes    == {c \in {lines[i].category : i \in DOMAIN lines} :
                        \A i \in DOMAIN lines : count(lines[i].category) <= count(c)}
    IN  GroupKeys(modes, ProductCategories)[1]

\* lambda x: x.mode()[0] if len(x) > 0 else 'Sin categoría', applied to the categorised
\* lines of one order_id group
dominant_category(x) ==
    IF Len(x) > 0 THEN mode_first(x) ELSE "Sin categoría"

\* the labels a dominant category can take, in sort order
DominantCategories == ProductCategories \o <<"Sin categoría">>

\* self.orders_df.merge(<dominant category per order_id>, left_on='order_id',
\* right_index=True): an inner join, the orders having at least one matched line
\* (groupby makes a group only for an order_id that occurs among the categorised lines)
orders_with_category(df, order_lines) ==
    LET matched == SelectRows(df, LAMBDA r : \E i \in DOMAIN order_lines :
                                                order_lines[i].order_id = r.order_id)
    IN  [i \in DOMAIN matched |->
            [order_id   |-> matched[i].order_id,
             analyst_id |-> matched[i].analyst_id,
             category   |-> dominant_category(SelectRows(order_lines,
                                LAMBDA l : l.order_id = matched[i].order_id))]]

\* the returned table, one row per analyst of the joined orders (no row at all when
\* the join is empty); primary_category_pct in tenths (round(1))
identify_specialization_out(df, skus, order_lines) ==
    LET owc      == orders_with_category(df, lines_with_category(order_lines, skus))
        analysts == {owc[i].analyst_id : i \in DOMAIN owc}
        cats     == GroupKeys({owc[i].category : i \in DOMAIN owc}, DominantCategories)
        n(a, c)  == CountRows(owc, LAMBDA r : r.analyst_id = a /\ r.category = c)
    IN  [a \in analysts |->
            LET best == MaxOf({n(a, cats[k]) : k \in DOMAIN cats})
                all  == CountRows(owc, LAMBDA r : r.analyst_id = a)
            IN  [primary_category     |->
                     cats[CHOOSE k \in DOMAIN cats :
                             /\ n(a, cats[k]) = best
                             /\ \A j \in DOMAIN cats : n(a, cats[j]) = best => k <= j],
                 primary_category_pct |-> RoundHalfEven(best * 1000, all),
                 categories_handled   |-> Cardinality({k \in DOMAIN cats : n(a, cats[k]) > 0})]]

\* the instance's and the caller's tables after a call of identify_specialization:
\* merge returns new tables, nothing is assigned
identify_specialization_self(df, skus, order_lines) ==
    [self |-> df, skus |-> skus, order_lines |-> order_lines]

\* Series.std() (ddof = 1) of the column weighted_workload of the workload table, as
\* the exact sample variance num/den in units of unit tenths: <<>> is NaN (no row,
\* or a single row: 0 / 0)
std_workload_sq(workload, unit) ==
    LET n == Cardinality(DOMAIN workload)
        u == [a \in DOMAIN workload |-> workload[a].weighted_workload \div unit]
        S == SumOver(u, DOMAIN workload)
    IN  IF n < 2 THEN <<>>
        ELSE <<[num |-> SumOver([a \in DOMAIN workload |-> (n * u[a] - S) * (n * u[a] - S)],
                                DOMAIN workload),
                den |-> n * n * (n - 1)]>>

\* the returned dictionary.  max_workload and min_workload in tenths, avg_workload and
\* imbalance_ratio as exact ratios; std_workload and coefficient_variation are square
\* roots and are carried by their exact squares (std_workload: variance in tenths
\* squared; coefficient_variation: (std / mean * 100) squared); <<>> is NaN
detect_workload_imbalance_out(df) ==
    LET workload == calculate_workload_by_analyst_out(df)
        n        == Cardinality(DOMAIN workload)
        loads    == {workload[a].weighted_workload : a \in DOMAIN workload}
        ww       == [a \in DOMAIN workload |-> workload[a].weighted_workload]
        S        == SumOver(ww, DOMAIN workload)
        unit     == GCDOfSet(loads)
        var      == std_workload_sq(workload, unit)
    IN  IF n = 0
        THEN [max_workload |-> <<>>, min_workload |-> <<>>, avg_workload |-> <<>>,
              std_workload |-> <<>>, imbalance_ratio |-> <<>>, coefficient_variation |-> <<>>]
        ELSE [max_workload    |-> <<MaxOf(loads)>>,
              min_workload    |-> <<0 - MaxOf({0 - x : x \in loads})>>,
              avg_workload    |-> <<[num |-> S, den |-> n]>>,
              std_workload    |-> IF var = <<>> THEN <<>>
                                  ELSE <<[num |-> var[1].num * unit * unit, den |-> var[1].den]>>,
              imbalance_ratio |-> <<[num |-> MaxOf(loads),
                                     den |-> 0 - MaxOf({0 - x : x \in loads})]>>,
              coefficient_variation |->
                  IF var = <<>> THEN <<>>
                  ELSE <<[num |-> 10000 * var[1].num,
                          den |-> (n - 1) * (S \div unit) * (S \div unit)]>>]

\* the instance's table after a call of detect_workload_imbalance: not assigned
detect_workload_imbalance_self(df) == df

-----------------------------------------------------------------------------
(* FinancialPerformanceKPI *)

\* __init__: the caller's tables and the instance afterwards; order_lines is Optional
FinancialPerformanceKPI_init(orders, order_lines) ==
    [caller_orders |-> orders,
     caller_lines  |-> order_lines,
     self          |-> [orders_df |-> orders, order_lines_df |-> order_lines]]

\* groupby('supplier_id')['total_cost'].sum().sort_values(ascending=False)
supplier_purchases(df) ==
    LET keys == GroupKeys({df[i].supplier_id : i \in DOMAIN df}, SupplierIds)
        sums == [k \in DOMAIN keys |->
                    [supplier_id |-> keys[k],
                     total_cost  |-> SumSeq(SelectRows(df, LAMBDA r : r.supplier_id = keys[k]),
                                            LAMBDA r : r.total_cost)]]
    IN  SortDescending(sums, LAMBDA r : r.total_cost)

\* supplier_purchases.head(5).sum()
top5_purchases(sp) ==
    SumSeq(SubSeq(sp, 1, IF Len(sp) < 5 THEN Len(sp) ELSE 5), LAMBDA r : r.total_cost)

\* (shares as fractions, not percentages)
hhi_ratio_fraction(sp, total_purchases) ==
    IF total_purchases = 0 THEN [num |-> 0, den |-> 1]
    ELSE LET g == GCDSeq(sp, LAMBDA r : r.total_cost)
         IN  [num |-> SumSeq(sp, LAMBDA r : (r.total_cost \div g) * (r.total_cost \div g)),
              den |-> (total_purchases \div g) * (total_purchases \div g)]

\* ((supplier_purchases / total_purchases * 100) ** 2).sum() as the exact ratio num/den,
\* each share cost/total taken in lowest common terms to keep the integers small;
\* with total_purchases = 0 every share is NaN and sum() skips NaN: 0
hhi_ratio(sp, total_purchases) ==
    IF total_purchases = 0 THEN [num |-> 0, den |-> 1]
    ELSE LET g == GCDSeq(sp, LAMBDA r : r.total_cost)
         IN  [num |-> 10000 * SumSeq(sp, LAMBDA r : (r.total_cost \div g) * (r.total_cost \div g)),
              den |-> (total_purchases \div g) * (total_purchases \div g)]

\* (thresholds taken inclusively)
risk_level_inclusive(hhi) ==
    IF hhi.num >= 2500 * hhi.den THEN "Alto"
    ELSE IF hhi.num >= 1500 * hhi.den THEN "Moderado"
    ELSE "Bajo"

\* 'Alto' if hhi > 2500 else 'Moderado' if hhi > 1500 else 'Bajo', on the unrounded hhi
risk_level(hhi) ==
    IF hhi.num > 2500 * hhi.den THEN "Alto"
    ELSE IF hhi.num > 1500 * hhi.den THEN "Moderado"
    ELSE "Bajo"

\* the returned dictionary; top5_concentration_pct is <<>> when it is NaN (0 / 0)
calculate_concentration_risk_out(df) ==
    LET sp    == supplier_purchases(df)
        total == SumSeq(sp, LAMBDA r : r.total_cost)
        hhi   == hhi_ratio(sp, total)
    IN  [total_suppliers        |-> Len(sp),
         top5_concentration_pct |-> IF total = 0 THEN <<>>
                                    ELSE <<RoundHalfEven(top5_purchases(sp) * 10000, total)>>,
         hhi_index              |-> RoundHalfEven(hhi.num * 100, hhi.den),
         risk_level             |-> risk_level(hhi)]

\* the instance's orders table after a call of calculate_concentration_risk: not assigned
calculate_concentration_risk_self(df) == df

\* (margin_pct <= threshold)
low_margin_inclusive(df, threshold) ==
    SelectRows(df, LAMBDA r : r.margin_pct <= threshold)

\* self.orders_df[self.orders_df['margin_pct'] < threshold].copy()
low_margin(df, threshold) ==
    SelectRows(df, LAMBDA r : r.margin_pct < threshold)

\* the returned table; potential_additional_margin in hundredths
identify_margin_opportunities_out(df, threshold) ==
    LET lm   == low_margin(df, threshold)
        cols == [i \in DOMAIN lm |->
                    [order_id                    |-> lm[i].order_id,
                     supplier_id                 |-> lm[i].supplier_id,
                     total_cost                  |-> lm[i].total_cost,
                     margin_pct                  |-> lm[i].margin_pct,
                     improvement_potential       |-> threshold - lm[i].margin_pct,
                     potential_additional_margin |->
                         lm[i].total_cost * (threshold - lm[i].margin_pct)]]
    IN  SortDescending(cols, LAMBDA r : r.potential_additional_margin)

\* (the filtered rows assigned back to self.orders_df)
identify_margin_opportunities_self_filtered(df, threshold) == low_margin(df, threshold)

\* the instance's orders table after a call of identify_margin_opportunities: the
\* derived columns go to the copy low_margin, self.orders_df is not assigned
identify_margin_opportunities_self(df, threshold) == df

\* the returned table, sorted by total_purchases descending; avg_margin_pct and
\* pct_purchases in hundredths (round(2)), pct_purchases <<>> when NaN (0 / 0);
\* supplier_name is <<>> for a supplier missing from suppliers_df (left join)
analyze_by_supplier_out(df, suppliers) ==
    LET keys  == GroupKeys({df[i].supplier_id : i \in DOMAIN df}, SupplierIds)
        total == SumSeq(df, LAMBDA r : r.total_cost)
        rows  == [k \in DOMAIN keys |->
                    LET mine == SelectRows(df, LAMBDA r : r.supplier_id = keys[k])
                        tp   == SumSeq(mine, LAMBDA r : r.total_cost)
                        info == SelectRows(suppliers, LAMBDA u : u.supplier_id = keys[k])
                    IN  [supplier_id     |-> keys[k],
                         num_orders      |-> Len(mine),
                         total_purchases |-> tp,
                         total_sales     |-> SumSeq(mine, LAMBDA r : r.sale_amount),
                         total_margin    |-> SumSeq(mine, LAMBDA r : r.margin),
                         avg_margin_pct  |-> RoundHalfEven(
                                                 SumSeq(mine, LAMBDA r : r.margin_pct) * 100, Len(mine)),
                         pct_purchases   |-> IF total = 0 THEN <<>>
                                             ELSE <<RoundHalfEven(tp * 10000, total)>>,
                         supplier_name   |-> IF info = <<>> THEN <<>>
                                             ELSE <<info[1].supplier_name>>]]
    IN  SortDescending(rows, LAMBDA r : r.total_purchases)

\* the instance's and the caller's tables after a call of analyze_by_supplier:
\* set_index and join return new tables, nothing is assigned
analyze_by_supplier_self(df, suppliers) == [self |-> df, suppliers |-> suppliers]

\* lines_with_category.merge(self.orders_df[['order_id', 'margin_pct']], on='order_id'):
\* the categorised lines whose order is in the orders table, with the order's margin_pct
lines_with_order(df, lines) ==
    LET known == SelectRows(lines, LAMBDA l : \E k \in DOMAIN df : df[k].order_id = l.order_id)
    IN  [i \in DOMAIN known |->
            [order_id   |-> known[i].order_id,
             category   |-> known[i].category,
             line_total |-> known[i].line_total,
             margin_pct |-> df[CHOOSE k \in DOMAIN df : df[k].order_id = known[i].order_id].margin_pct]]

\* the table of category metrics, sorted by total_sales descending; avg_margin_pct and
\* pct_sales in hundredths (round(2)), pct_sales <<>> when NaN (0 / 0)
category_metrics(df, order_lines, skus) ==
    LET lwo   == lines_with_order(df, lines_with_category(order_lines, skus))
        keys  == GroupKeys({lwo[i].category : i \in DOMAIN lwo}, ProductCategories)
        total == SumSeq(lwo, LAMBDA l : l.line_total)
        rows  == [k \in DOMAIN keys |->
                    LET mine == SelectRows(lwo, LAMBDA l : l.category = keys[k])
                        ts   == SumSeq(mine, LAMBDA l : l.line_total)
                    IN  [category       |-> keys[k],
                         num_orders     |-> Cardinality({mine[i].order_id : i \in DOMAIN mine}),
                         total_sales    |-> ts,
                         avg_margin_pct |-> RoundHalfEven(
                                                SumSeq(mine, LAMBDA l : l.margin_pct) * 100, Len(mine)),
                         pct_sales      |-> IF total = 0 THEN <<>>
                                            ELSE <<RoundHalfEven(ts * 10000, total)>>]]
    IN  SortDescending(rows, LAMBDA r : r.total_sales)

\* (no check of order_lines_df: an empty table comes back when it is None)
analyze_by_category_out_silent(self, skus) ==
    IF self.order_lines_df = <<>>
    THEN [raised |-> <<>>, value |-> <<>>]
    ELSE [raised |-> <<>>,
          value  |-> category_metrics(self.orders_df, self.order_lines_df[1], skus)]

\* the outcome of analyze_by_category(skus_df): the exception raised, or the table
analyze_by_category_out(self, skus) ==
    IF self.order_lines_df = <<>>
    THEN [raised |-> <<[type    |-> "ValueError",
                        message |-> "Se requiere order_lines_df para análisis por categoría"]>>,
          value  |-> <<>>]
    ELSE [raised |-> <<>>,
          value  |-> category_metrics(self.orders_df, self.order_lines_df[1], skus)]

\* the instance and the caller's catalogue after a call of analyze_by_category: the
\* raise comes first, the merges return new tables, nothing is assigned
analyze_by_category_self(self, skus) == [self |-> self, skus |-> skus]

-----------------------------------------------------------------------------
(* OperationalProcessingKPI *)

\* a date is a record [year, month, day] of the proleptic Gregorian calendar
IsLeap(y) == (y % 4 = 0 /\ y % 100 # 0) \/ y % 400 = 0

DaysInMonth(y, m) ==
    IF m = 2 THEN (IF IsLeap(y) THEN 29 ELSE 28)
    ELSE IF m \in {4, 6, 9, 11} THEN 30 ELSE 31

DayOfYear(d) ==
    LET acc[m \in 0..12] == IF m = 0 THEN 0 ELSE acc[m - 1] + DaysInMonth(d.year, m)
    IN  acc[d.month - 1] + d.day

\* ISO weekday (Monday 1 .. Sunday 7) of 1 January of year y
Jan1Weekday(y) ==
    LET dow == (1 + 5 * ((y - 1) % 4) + 4 * ((y - 1) % 100) + 6 * ((y - 1) % 400)) % 7
    IN  IF dow = 0 THEN 7 ELSE dow

Weekday(d) == ((Jan1Weekday(d.year) - 1 + DayOfYear(d) - 1) % 7) + 1

WeeksInYear(y) ==
    IF Jan1Weekday(y) = 4 \/ (IsLeap(y) /\ Jan1Weekday(y) = 3) THEN 53 ELSE 52

\* processed_date.dt.isocalendar().week
isocalendar_week(d) ==
    LET wk == (DayOfYear(d) - Weekday(d) + 10) \div 7
    IN  IF wk < 1 THEN WeeksInYear(d.year - 1)
        ELSE IF wk > WeeksInYear(d.year) THEN 1
        ELSE wk

\* the columns week and year attached to every row
with_week_year(df) ==
    [i \in DOMAIN df |->
        [week |-> isocalendar_week(df[i].processed_date),
         year |-> df[i].processed_date.year] @@ df[i]]

\* (no copy: the columns land in the caller's table)
OperationalProcessingKPI_init_shared(df) ==
    IF ~HasColumn(df, "processed_date")
    THEN [caller |-> df, self |-> <<>>, raised |-> <<KeyError("processed_date")>>]
    ELSE IF ~HasColumn(df, "invoice_date")
    THEN [caller |-> df, self |-> <<>>, raised |-> <<KeyError("invoice_date")>>]
    ELSE [caller |-> with_week_year(df), self |-> with_week_year(df), raised |-> <<>>]

\* __init__: the caller's table and the instance's table afterwards, or the exception
\* raised (only the columns processed_date and invoice_date are read)
OperationalProcessingKPI_init(df) ==
    IF ~HasColumn(df, "processed_date")
    THEN [caller |-> df, self |-> <<>>, raised |-> <<KeyError("processed_date")>>]
    ELSE IF ~HasColumn(df, "invoice_date")
    THEN [caller |-> df, self |-> <<>>, raised |-> <<KeyError("invoice_date")>>]
    ELSE [caller |-> df, self |-> with_week_year(df), raised |-> <<>>]

\* self.invoices_df['week'].max() and self.invoices_df['year'].max(), of a non-empty table
max_week(df) == MaxOf({df[i].week : i \in DOMAIN df})
max_year(df) == MaxOf({df[i].year : i \in DOMAIN df})

\* the table returned for the period (week, year): one row per analyst of the period;
\* KPI_2_Cumplimiento and KPI_3_Calidad in tenths (round(1)); the KeyError of groupby
\* or agg when the table lacks assigned_to or has_error
weekly_kpis(df, week, year) ==
    IF ~HasColumn(df, "assigned_to") THEN KeyError("assigned_to")
    ELSE IF ~HasColumn(df, "has_error") THEN KeyError("has_error")
    ELSE
    LET week_data == SelectRows(df, LAMBDA r : r.week = week /\ r.year = year)
        analysts  == {week_data[i].assigned_to : i \in DOMAIN week_data}
    IN  [a \in analysts |->
            LET mine == SelectRows(week_data, LAMBDA r : r.assigned_to = a)
            IN  [KPI_1_Volumen      |-> Len(mine),
                 KPI_2_Cumplimiento |-> 1000,
                 KPI_3_Calidad      |-> RoundHalfEven(
                                            CountRows(mine, LAMBDA r : ~r.has_error) * 1000,
                                            Len(mine)),
                 Semana             |-> week,
                 Anio               |-> year]]

\* calculate_weekly_kpis(week, year); period is <<>> when week or year is None
calculate_weekly_kpis_out(df, period) ==
    IF period = <<>> THEN weekly_kpis(df, max_week(df), max_year(df))
    ELSE weekly_kpis(df, period[1].week, period[1].year)

\* the instance's table after a call of calculate_weekly_kpis: week_data is a selection,
\* self.invoices_df is not assigned
calculate_weekly_kpis_self(df, period) == df

\* (no wrap to the prior year)
trend_period_nowrap(df, i) ==
    [week |-> max_week(df) - i, year |-> max_year(df)]

\* the period of iteration i of the loop of calculate_trend
trend_period(df, i) ==
    LET week_num == max_week(df) - i
    IN  IF week_num < 1 THEN [week |-> week_num + 52, year |-> max_year(df) - 1]
        ELSE [week |-> week_num, year |-> max_year(df)]

\* a table keyed by analyst as a sequence of rows, in the order of the analyst ids
FrameRows(tbl) ==
    LET keys == GroupKeys(DOMAIN tbl, AnalystIds)
    IN  [k \in DOMAIN keys |->
            [assigned_to        |-> keys[k],
             KPI_1_Volumen      |-> tbl[keys[k]].KPI_1_Volumen,
             KPI_2_Cumplimiento |-> tbl[keys[k]].KPI_2_Cumplimiento,
             KPI_3_Calidad      |-> tbl[keys[k]].KPI_3_Calidad,
             Semana             |-> tbl[keys[k]].Semana,
             Anio               |-> tbl[keys[k]].Anio]]

\* calculate_trend(analyst_id, weeks); analyst_id is <<>> when None.  periods: the
\* periods passed to calculate_weekly_kpis, in call order; rows: the returned table
calculate_trend_out(df, analyst_id, weeks) ==
    LET periods == [i \in 1..weeks |-> trend_period(df, i - 1)]
        frame(i) == LET all == FrameRows(weekly_kpis(df, periods[i].week, periods[i].year))
                    IN  IF analyst_id = <<>> THEN all
                        ELSE SelectRows(all, LAMBDA r : r.assigned_to = analyst_id[1])
        concat[i \in 0..weeks] == IF i = 0 THEN <<>> ELSE concat[i - 1] \o frame(i)
    IN  [periods |-> periods,
         rows    |-> SortDescending(concat[weeks], LAMBDA r : 0 - (r.Anio * 100 + r.Semana))]

\* the instance's table after a call of calculate_trend: not assigned
calculate_trend_self(df, analyst_id, weeks) == df

\* (thresholds taken inclusively)
issue_lists_inclusive(current_kpis, threshold_quality) ==
    LET keys == GroupKeys(DOMAIN current_kpis, AnalystIds)
        n    == Len(keys)
        S    == SumOver([a \in DOMAIN current_kpis |-> current_kpis[a].KPI_1_Volumen],
                        DOMAIN current_kpis)
    IN  [low_quality |-> SelectRows(keys, LAMBDA a :
                             current_kpis[a].KPI_3_Calidad <= threshold_quality),
         low_volume  |-> SelectRows(keys, LAMBDA a :
                             2 * n * current_kpis[a].KPI_1_Volumen <= S)]

\* the index labels of current_kpis with KPI_3_Calidad < threshold_quality, and those
\* with KPI_1_Volumen < mean_volume * 0.5 (mean_volume = S / n), in index order
issue_lists(current_kpis, threshold_quality) ==
    LET keys == GroupKeys(DOMAIN current_kpis, AnalystIds)
        n    == Len(keys)
        S    == SumOver([a \in DOMAIN current_kpis |-> current_kpis[a].KPI_1_Volumen],
                        DOMAIN current_kpis)
    IN  [low_quality |-> SelectRows(keys, LAMBDA a :
                             current_kpis[a].KPI_3_Calidad < threshold_quality),
         low_volume  |-> SelectRows(keys, LAMBDA a :
                             2 * n * current_kpis[a].KPI_1_Volumen < S)]

\* identify_performance_issues(threshold_quality), threshold_quality in tenths: the
\* returned dictionary; avg_quality (tenths) and avg_volume as exact ratios, <<>> when
\* NaN (the mean of no row)
identify_performance_issues_out(df, threshold_quality) ==
    LET current_kpis == calculate_weekly_kpis_out(df, <<>>)
        n            == Cardinality(DOMAIN current_kpis)
        lists        == issue_lists(current_kpis, threshold_quality)
    IN  [low_quality |-> lists.low_quality,
         low_volume  |-> lists.low_volume,
         summary     |->
             [total_analysts               |-> n,
              analysts_with_quality_issues |-> Len(lists.low_quality),
              analysts_with_volume_issues  |-> Len(lists.low_volume),
              avg_quality |-> IF n = 0 THEN <<>>
                              ELSE <<[num |-> SumOver([a \in DOMAIN current_kpis |->
                                                          current_kpis[a].KPI_3_Calidad],
                                                      DOMAIN current_kpis),
                                      den |-> n]>>,
              avg_volume  |-> IF n = 0 THEN <<>>
                              ELSE <<[num |-> SumOver([a \in DOMAIN current_kpis |->
                                                          current_kpis[a].KPI_1_Volumen],
                                                      DOMAIN current_kpis),
                                      den |-> n]>>]]

\* the instance's table after a call of identify_performance_issues: not assigned
identify_performance_issues_self(df, threshold_quality) == df

\* the (year, week) keys of groupby(['year', 'week'])
team_periods(df) == {[year |-> df[i].year, week |-> df[i].week] : i \in DOMAIN df}

\* (grouped by the week number only)
calculate_team_performance_out_by_week(df) ==
    [team_metrics |->
        [k \in team_periods(df) |->
            LET rows == SelectRows(df, LAMBDA r : r.week = k.week)
            IN  [total_processed     |-> Len(rows),
                 quality_pct         |-> RoundHalfEven(
                                             CountRows(rows, LAMBDA r : ~r.has_error) * 10000,
                                             Len(rows)),
                 avg_processing_days |-> RoundHalfEven(
                                             SumSeq(rows, LAMBDA r : r.processing_days) * 100,
                                             Len(rows)),
                 total_amount        |-> SumSeq(rows, LAMBDA r : r.amount)]]]

\* calculate_team_performance(): team_metrics, one row per (year, week) of the records,
\* quality_pct and avg_processing_days in hundredths (round(2)); or the KeyError of agg
\* naming the columns the table lacks
calculate_team_performance_out(df) ==
    LET needed  == <<"invoice_id", "has_error", "processing_days", "amount">>
        lacking == SelectRows(needed, LAMBDA c : ~HasColumn(df, c))
    IN  IF lacking # <<>> THEN KeyError(lacking)
        ELSE
        [team_metrics |->
            [k \in team_periods(df) |->
                LET rows == SelectRows(df, LAMBDA r : r.year = k.year /\ r.week = k.week)
                IN  [total_processed     |-> Len(rows),
                     quality_pct         |-> RoundHalfEven(
                                                 CountRows(rows, LAMBDA r : ~r.has_error) * 10000,
                                                 Len(rows)),
                     avg_processing_days |-> RoundHalfEven(
                                                 SumSeq(rows, LAMBDA r : r.processing_days) * 100,
                                                 Len(rows)),
                     total_amount        |-> SumSeq(rows, LAMBDA r : r.amount)]]]

\* the instance's table after a call of calculate_team_performance: groupby and agg
\* return new tables, self.invoices_df is not assigned
calculate_team_performance_self(df) == df

\* issues = self.identify_performance_issues(): no argument, so the default threshold
\* 95.0 and the default period, whatever (week, year) the report was asked for
report_issues(df) == identify_performance_issues_out(df, 950)

\* kpis.join(analyst_df.set_index('analyst_id')[['analyst_name']], how='left') when
\* analyst_df is given: the rows of kpis in index order, analyst_name <<>> when the
\* analyst is not in analyst_df or analyst_df is None
report_table(kpis, analyst_df) ==
    LET rows == FrameRows(kpis)
    IN  [i \in DOMAIN rows |->
            LET info == IF analyst_df = <<>> THEN <<>>
                        ELSE SelectRows(analyst_df[1],
                                        LAMBDA u : u.analyst_id = rows[i].assigned_to)
            IN  [analyst_name |-> IF info = <<>> THEN <<>> ELSE <<info[1].analyst_name>>]
                @@ rows[i]]

\* generate_weekly_report(week, year, analyst_df), by content (the text is rendered
\* from it): the message returned when the period has no row, the KeyError of
\* kpis.loc[analyst, ...] for the first alerted analyst without a row in kpis, or the
\* report: period of the header, table, team summary and the two alert lists
generate_weekly_report_out(df, period, analyst_df) ==
    LET kpis    == calculate_weekly_kpis_out(df, period)
        issues  == report_issues(df)
        alerted == issues.low_quality \o issues.low_volume
        missing == SelectRows(alerted, LAMBDA a : a \notin DOMAIN kpis)
        first   == CHOOSE a \in DOMAIN kpis : TRUE
    IN  IF DOMAIN kpis = {}
        THEN [message |-> "No hay datos disponibles para la semana especificada"]
        ELSE IF missing # <<>> THEN KeyError(missing[1])
        ELSE [period         |-> [week |-> kpis[first].Semana, year |-> kpis[first].Anio],
              table          |-> report_table(kpis, analyst_df),
              summary        |-> issues.summary,
              quality_alerts |-> [i \in DOMAIN issues.low_quality |->
                                     [analyst |-> issues.low_quality[i],
                                      quality |-> kpis[issues.low_quality[i]].KPI_3_Calidad]],
              volume_alerts  |-> [i \in DOMAIN issues.low_volume |->
                                     [analyst |-> issues.low_volume[i],
                                      volume  |-> kpis[issues.low_volume[i]].KPI_1_Volumen]],
              all_ok         |-> issues.low_quality = <<>> /\ issues.low_volume = <<>>]

\* the instance's table and the caller's catalogue after a call of
\* generate_weekly_report: join and set_index return new tables, nothing is assigned
generate_weekly_report_self(df, period, analyst_df) == [self |-> df, analysts |-> analyst_df]

-----------------------------------------------------------------------------
(* Inputs *)

\* an order of cost c and margin percentage m: margin = c x m / 100, sale = c + margin
Order(id, a, s, n, c, m) ==
    [order_id |-> id, analyst_id |-> a, supplier_id |-> s, num_skus |-> n,
     total_cost |-> c, sale_amount |-> c + (c * m) \div 100, margin |-> (c * m) \div 100,
     margin_pct |-> m]

\* tables of exactly k rows, row i drawn from Rows and given the order_id i
TablesOfLen(k, Rows) ==
    {[i \in 1..k |-> [f[i] EXCEPT !.order_id = i]] : f \in [1..k -> Rows]}

TablesUpTo(k, Rows) == UNION {TablesOfLen(j, Rows) : j \in 0..k}

\* SKU counts at the edges of the complexity ranges, and one non-positive count
BoundarySkus == {0, 5, 6, 20, 21, 50, 51}

\* one analyst, two orders with consecutive SKU counts: every count in -1..MaxSkus
ConsecutiveSkuOrders ==
    {<<Order(1, "AN001", "SUP0001", n, 1000, 15), Order(2, "AN001", "SUP0001", n + 1, 1000, 15)>> :
        n \in -1..(MaxSkus - 1)}

WorkloadOrders ==
    ConsecutiveSkuOrders \cup
    TablesUpTo(MaxOrders, {Order(0, a, "SUP0001", n, 1000, 15) :
                              a \in Range(AnalystIds), n \in BoundarySkus})

\* order costs and margin percentages, and the thresholds asked for
Costs == {0, 500, 1000}
Margins == {5, 15}
Thresholds == {10, 15}

\* one order per supplier, for up to MaxSuppliers suppliers
RiskOrders ==
    UNION {{[i \in 1..k |-> Order(i, "AN001", SupplierIds[i], 1, c[i], 15)] : c \in [1..k -> Costs]} :
              k \in 0..MaxSuppliers}

\* several orders per supplier, with margins on both sides of the thresholds
MarginOrders ==
    TablesUpTo(MaxOrders,
               {Order(0, "AN001", "SUP0001", 1, c, m) : c \in Costs \ {0}, m \in Margins} \cup
               {Order(0, "AN001", "SUP0002", 1, 1000, m) : m \in Margins})

\* one order per supplier at the edges of the risk tiers: an index of exactly 1500
\* (shares 20, 15, 15, 15, 15, 10, 10), just above it, and seven equal suppliers
TierCosts ==
    { <<400, 300, 300, 300, 300, 200, 200>>,
      <<400, 400, 300, 300, 300, 200, 200>>,
      <<100, 100, 100, 100, 100, 100, 100>> }
TierOrders ==
    {[i \in DOMAIN c |-> Order(i, "AN001", SupplierIds[i], 1, c[i], 15)] : c \in TierCosts}

FinancialOrders == RiskOrders \cup MarginOrders \cup TierOrders

Date(y, m, d) == [year |-> y, month |-> m, day |-> d]

\* processed dates around a turn of the year: Mon 23 Dec 2024 (ISO week 52),
\* Mon 30 Dec 2024 (ISO week 1 of 2025), Thu 2 Jan 2025 (week 1), Mon 6 Jan 2025 (week 2)
ProcessedDates == {Date(2024, 12, 23), Date(2024, 12, 30), Date(2025, 1, 2), Date(2025, 1, 6)}

Invoice(id, a, d, err) ==
    [invoice_id |-> id, assigned_to |-> a, invoice_date |-> Date(2024, 12, 20),
     processed_date |-> d, has_error |-> err, processing_days |-> 1, amount |-> 1000]

InvoiceRows ==
    {Invoice(0, a, d, err) : a \in Range(AnalystIds), d \in ProcessedDates, err \in BOOLEAN}

\* tables of 1..MaxInvoices processing records, record i given the invoice_id i
ProcessingInvoices ==
    UNION {{[i \in 1..k |-> [f[i] EXCEPT !.invoice_id = i]] : f \in [1..k -> InvoiceRows]} :
              k \in 1..MaxInvoices}

\* one week (that of Mon 6 Jan 2025) of records: analyst a has v[a] records, the first
\* e[a] of them with an error
VolumeTable(v, e) ==
    LET of(a) == [i \in 1..v[a] |-> Invoice(0, a, Date(2025, 1, 6), i <= e[a])]
        all   == of(AnalystIds[1]) \o of(AnalystIds[2])
    IN  [i \in DOMAIN all |-> [all[i] EXCEPT !.invoice_id = i]]

\* every split of up to MaxVolume records per analyst, with every number of errors
VolumeInvoices ==
    {VolumeTable(v, e) : v \in {w \in [Range(AnalystIds) -> 0..MaxVolume] : \E a \in DOMAIN w : w[a] > 0},
                         e \in [Range(AnalystIds) -> 0..MaxVolume]} \ {<<>>}

\* threshold_quality in tenths: the default 95.0, and 50.0
QualityThresholds == {950, 500}

\* processed dates whose ISO year is not their calendar year, with dates of the same
\* week number: Tue 2 Jan 2024 (ISO 2024 week 1), Mon 30 Dec 2024 (ISO 2025 week 1),
\* Sun 3 Jan 2021 (ISO 2020 week 53)
IngestionDates == ProcessedDates \cup {Date(2024, 1, 2), Date(2021, 1, 3)}

\* tables of 1..MaxInvoices records of one analyst processed on those dates
IngestionInvoices ==
    UNION {{[i \in 1..k |-> Invoice(i, "AN001", d[i], FALSE)] : d \in [1..k -> IngestionDates]} :
              k \in 1..MaxInvoices}

\* the arguments asked for: (week, year) of calculate_weekly_kpis, <<>> being the default;
\* (analyst_id, weeks) of calculate_trend
PeriodArgs == {<<>>, <<[week |-> 1, year |-> 2025]>>}
RecordPeriodArgs ==
    {<<[week |-> isocalendar_week(d), year |-> d.year]>> : d \in ProcessedDates}
TrendArgs ==
    {[analyst_id |-> <<>>, weeks |-> 4],
     [analyst_id |-> <<>>, weeks |-> MaxTrendWeeks],
     [analyst_id |-> <<"AN001">>, weeks |-> 4]}

OrderLine(o, k, t) ==
    [order_id |-> o, sku |-> k, quantity |-> 1, unit_price |-> t, line_total |-> t]

\* the catalogues: SKU000003 of the order lines is not in the SKU catalogue,
\* SUP0002 is not in the supplier catalogue
SkuCatalogue ==
    << [sku |-> "SKU000001", category |-> "Bebidas"],
       [sku |-> "SKU000002", category |-> "Equipamiento"] >>
SupplierCatalogue ==
    << [supplier_id |-> "SUP0001", supplier_name |-> "Proveedor Uno",
        supplier_type |-> "Nacional", rating |-> 45] >>
AnalystCatalogue ==
    << [analyst_id |-> "AN001", analyst_name |-> "Ana"],
       [analyst_id |-> "AN002", analyst_name |-> "Luis"] >>

\* small joint inputs for the runs that interleave the three engines
OrdersTwoAnalysts ==
    <<Order(1, "AN001", "SUP0001", 5, 1000, 5), Order(2, "AN002", "SUP0002", 51, 500, 15)>>
OrdersOneAnalyst ==
    <<Order(1, "AN002", "SUP0002", 20, 500, 15), Order(2, "AN002", "SUP0001", 21, 1000, 5)>>
OrderLinesUnmatched ==
    <<OrderLine(1, "SKU000001", 600), OrderLine(1, "SKU000002", 400),
      OrderLine(2, "SKU000003", 500)>>
OrderLinesMatched ==
    <<OrderLine(1, "SKU000002", 1000), OrderLine(2, "SKU000002", 500)>>
InvoicesWeekOne ==
    <<Invoice(1, "AN001", Date(2024, 12, 30), TRUE), Invoice(2, "AN002", Date(2025, 1, 2), FALSE)>>
InvoicesTwoYears ==
    <<Invoice(1, "AN002", Date(2024, 12, 23), FALSE), Invoice(2, "AN002", Date(2025, 1, 6), TRUE)>>
JointInputs ==
    { [orders |-> OrdersTwoAnalysts, order_lines |-> OrderLinesUnmatched, invoices |-> InvoicesWeekOne],
      [orders |-> OrdersTwoAnalysts, order_lines |-> OrderLinesMatched,   invoices |-> InvoicesTwoYears],
      [orders |-> OrdersOneAnalyst,  order_lines |-> OrderLinesMatched,   invoices |-> InvoicesWeekOne],
      [orders |-> OrdersOneAnalyst,  order_lines |-> OrderLinesUnmatched, invoices |-> InvoicesTwoYears] }

\* a table without its column c
DropColumn(df, c) ==
    [i \in DOMAIN df |-> [f \in (DOMAIN df[i]) \ {c} |-> df[i][f]]]

\* the joint order and invoice tables, complete and with any one column absent
SchemaOrders ==
    LET full == {OrdersTwoAnalysts, OrdersOneAnalyst}
    IN  full \cup {DropColumn(t, c) : t \in full, c \in DOMAIN OrdersTwoAnalysts[1]}
SchemaInvoices ==
    LET full == {InvoicesWeekOne, InvoicesTwoYears}
    IN  full \cup {DropColumn(t, c) : t \in full, c \in DOMAIN InvoicesWeekOne[1]}

NoReturns ==
    [AnalystWorkloadKPI            |-> {},
     OperationalProcessingKPI      |-> {},
     calculate_workload_by_analyst |-> {},
     identify_specialization       |-> {},
     detect_workload_imbalance     |-> {},
     analyze_by_supplier           |-> {},
     analyze_by_category           |-> {},
     calculate_concentration_risk  |-> {},
     identify_margin_opportunities |-> [T \in Thresholds |-> {}],
     calculate_weekly_kpis         |-> [p \in PeriodArgs \cup RecordPeriodArgs |-> {}],
     calculate_team_performance    |-> {},
     identify_performance_issues   |-> [q \in QualityThresholds |-> {}],
     generate_weekly_report        |-> [p \in PeriodArgs |-> [named \in BOOLEAN |-> {}]],
     calculate_trend               |-> [t \in TrendArgs |-> {}]]

-----------------------------------------------------------------------------
(* Operations of AnalystWorkloadKPI *)

\* workload_system = AnalystWorkloadKPI(orders_df)
AnalystWorkloadKPI ==
    /\ workload_system = <<>>
    /\ LET r == AnalystWorkloadKPI_init(orders_df)
       IN  /\ orders_df' = r.caller
           /\ workload_system' = IF r.raised = <<>> THEN <<[orders_df |-> r.self]>> ELSE <<>>
           /\ returns' = IF r.raised = <<>> THEN returns
                         ELSE [returns EXCEPT !.AnalystWorkloadKPI = @ \cup {r.raised[1]}]
    /\ UNCHANGED <<order_lines_df, skus_df, suppliers_df, analysts_df, invoices_df,
                   financial_system, processing_system>>

calculate_workload_by_analyst ==
    /\ workload_system # <<>>
    /\ LET self == workload_system[1]
       IN  /\ returns' = [returns EXCEPT !.calculate_workload_by_analyst =
                              @ \cup {calculate_workload_by_analyst_out(self.orders_df)}]
           /\ workload_system' =
                 <<[self EXCEPT !.orders_df = calculate_workload_by_analyst_self(self.orders_df)]>>
    /\ UNCHANGED <<caller_tables, financial_system, processing_system>>

\* workload_system.identify_specialization(skus_df, order_lines_df)
identify_specialization ==
    /\ workload_system # <<>>
    /\ LET self == workload_system[1]
           r    == identify_specialization_self(self.orders_df, skus_df, order_lines_df)
       IN  /\ returns' = [returns EXCEPT !.identify_specialization =
                              @ \cup {identify_specialization_out(self.orders_df, skus_df,
                                                                  order_lines_df)}]
           /\ workload_system' = <<[self EXCEPT !.orders_df = r.self]>>
           /\ skus_df' = r.skus
           /\ order_lines_df' = r.order_lines
    /\ UNCHANGED <<orders_df, suppliers_df, analysts_df, invoices_df,
                   financial_system, processing_system>>

detect_workload_imbalance ==
    /\ workload_system # <<>>
    /\ LET self == workload_system[1]
       IN  /\ returns' = [returns EXCEPT !.detect_workload_imbalance =
                              @ \cup {detect_workload_imbalance_out(self.orders_df)}]
           /\ workload_system' =
                 <<[self EXCEPT !.orders_df = detect_workload_imbalance_self(self.orders_df)]>>
    /\ UNCHANGED <<caller_tables, financial_system, processing_system>>

-----------------------------------------------------------------------------
(* Operations of FinancialPerformanceKPI *)

\* financial_system = FinancialPerformanceKPI(orders_df) or (orders_df, order_lines_df)
FinancialPerformanceKPI ==
    /\ financial_system = <<>>
    /\ \E lines \in {<<>>, <<order_lines_df>>} :
          LET r == FinancialPerformanceKPI_init(orders_df, lines)
          IN  /\ orders_df' = r.caller_orders
              /\ order_lines_df' = IF lines = <<>> THEN order_lines_df ELSE r.caller_lines[1]
              /\ financial_system' = <<r.self>>
    /\ UNCHANGED <<skus_df, suppliers_df, analysts_df, invoices_df,
                   workload_system, processing_system, returns>>

calculate_concentration_risk ==
    /\ financial_system # <<>>
    /\ LET self == financial_system[1]
       IN  /\ returns' = [returns EXCEPT !.calculate_concentration_risk =
                              @ \cup {calculate_concentration_risk_out(self.orders_df)}]
           /\ financial_system' =
                 <<[self EXCEPT !.orders_df = calculate_concentration_risk_self(self.orders_df)]>>
    /\ UNCHANGED <<caller_tables, workload_system, processing_system>>

identify_margin_opportunities ==
    /\ financial_system # <<>>
    /\ \E threshold \in Thresholds :
          LET self == financial_system[1]
          IN  /\ returns' = [returns EXCEPT !.identify_margin_opportunities[threshold] =
                                 @ \cup {identify_margin_opportunities_out(self.orders_df, threshold)}]
              /\ financial_system' =
                    <<[self EXCEPT !.orders_df =
                          identify_margin_opportunities_self(self.orders_df, threshold)]>>
    /\ UNCHANGED <<caller_tables, workload_system, processing_system>>

\* financial_system.analyze_by_supplier(suppliers_df)
analyze_by_supplier ==
    /\ financial_system # <<>>
    /\ LET self == financial_system[1]
           r    == analyze_by_supplier_self(self.orders_df, suppliers_df)
       IN  /\ returns' = [returns EXCEPT !.analyze_by_supplier =
                              @ \cup {analyze_by_supplier_out(self.orders_df, suppliers_df)}]
           /\ financial_system' = <<[self EXCEPT !.orders_df = r.self]>>
           /\ suppliers_df' = r.suppliers
    /\ UNCHANGED <<orders_df, order_lines_df, skus_df, analysts_df, invoices_df,
                   workload_system, processing_system>>

\* financial_system.analyze_by_category(skus_df)
analyze_by_category ==
    /\ financial_system # <<>>
    /\ LET self == financial_system[1]
           r    == analyze_by_category_self(self, skus_df)
       IN  /\ returns' = [returns EXCEPT !.analyze_by_category =
                              @ \cup {analyze_by_category_out(self, skus_df)}]
           /\ financial_system' = <<r.self>>
           /\ skus_df' = r.skus
    /\ UNCHANGED <<orders_df, order_lines_df, suppliers_df, analysts_df, invoices_df,
                   workload_system, processing_system>>

-----------------------------------------------------------------------------
(* Operations of OperationalProcessingKPI *)

\* processing_system = OperationalProcessingKPI(invoices_df)
OperationalProcessingKPI ==
    /\ processing_system = <<>>
    /\ LET r == OperationalProcessingKPI_init(invoices_df)
       IN  /\ invoices_df' = r.caller
           /\ processing_system' = IF r.raised = <<>> THEN <<[invoices_df |-> r.self]>> ELSE <<>>
           /\ returns' = IF r.raised = <<>> THEN returns
                         ELSE [returns EXCEPT !.OperationalProcessingKPI = @ \cup {r.raised[1]}]
    /\ UNCHANGED <<orders_df, order_lines_df, skus_df, suppliers_df, analysts_df,
                   workload_system, financial_system>>

calculate_weekly_kpis ==
    /\ processing_system # <<>>
    /\ \E period \in PeriodArgs :
          LET self == processing_system[1]
          IN  /\ returns' = [returns EXCEPT !.calculate_weekly_kpis[period] =
                                 @ \cup {calculate_weekly_kpis_out(self.invoices_df, period)}]
              /\ processing_system' =
                    <<[self EXCEPT !.invoices_df =
                          calculate_weekly_kpis_self(self.invoices_df, period)]>>
    /\ UNCHANGED <<caller_tables, workload_system, financial_system>>

calculate_trend ==
    /\ processing_system # <<>>
    /\ \E t \in TrendArgs :
          LET self == processing_system[1]
          IN  /\ returns' = [returns EXCEPT !.calculate_trend[t] =
                                 @ \cup {calculate_trend_out(self.invoices_df, t.analyst_id, t.weeks)}]
              /\ processing_system' =
                    <<[self EXCEPT !.invoices_df =
                          calculate_trend_self(self.invoices_df, t.analyst_id, t.weeks)]>>
    /\ UNCHANGED <<caller_tables, workload_system, financial_system>>

identify_performance_issues ==
    /\ processing_system # <<>>
    /\ \E threshold_quality \in QualityThresholds :
          LET self == processing_system[1]
          IN  /\ returns' = [returns EXCEPT !.identify_performance_issues[threshold_quality] =
                                 @ \cup {identify_performance_issues_out(self.invoices_df,
                                                                         threshold_quality)}]
              /\ processing_system' =
                    <<[self EXCEPT !.invoices_df =
                          identify_performance_issues_self(self.invoices_df, threshold_quality)]>>
    /\ UNCHANGED <<caller_tables, workload_system, financial_system>>

\* processing_system.generate_weekly_report(week, year) or (week, year, analysts_df)
\* processing_system.calculate_weekly_kpis(week, year) for a (year, week) that the
\* records of the instance hold
calculate_weekly_kpis_each_period ==
    /\ processing_system # <<>>
    /\ \E period \in RecordPeriodArgs :
          LET self == processing_system[1]
          IN  /\ [year |-> period[1].year, week |-> period[1].week]
                     \in team_periods(self.invoices_df)
              /\ returns' = [returns EXCEPT !.calculate_weekly_kpis[period] =
                                 @ \cup {calculate_weekly_kpis_out(self.invoices_df, period)}]
              /\ processing_system' =
                    <<[self EXCEPT !.invoices_df =
                          calculate_weekly_kpis_self(self.invoices_df, period)]>>
    /\ UNCHANGED <<caller_tables, workload_system, financial_system>>

\* processing_system.calculate_team_performance()
calculate_team_performance ==
    /\ processing_system # <<>>
    /\ LET self == processing_system[1]
       IN  /\ returns' = [returns EXCEPT !.calculate_team_performance =
                              @ \cup {calculate_team_performance_out(self.invoices_df)}]
           /\ processing_system' =
                 <<[self EXCEPT !.invoices_df =
                       calculate_team_performance_self(self.invoices_df)]>>
    /\ UNCHANGED <<caller_tables, workload_system, financial_system>>

generate_weekly_report ==
    /\ processing_system # <<>>
    /\ \E period \in PeriodArgs, analyst_df \in {<<>>, <<analysts_df>>} :
          LET self == processing_system[1]
              r    == generate_weekly_report_self(self.invoices_df, period, analyst_df)
          IN  /\ returns' = [returns EXCEPT
                                 !.generate_weekly_report[period][analyst_df # <<>>] =
                                     @ \cup {generate_weekly_report_out(self.invoices_df, period,
                                                                        analyst_df)}]
              /\ processing_system' = <<[self EXCEPT !.invoices_df = r.self]>>
              /\ analysts_df' = IF analyst_df = <<>> THEN analysts_df ELSE r.analysts[1]
    /\ UNCHANGED <<orders_df, order_lines_df, skus_df, suppliers_df, invoices_df,
                   workload_system, financial_system>>

-----------------------------------------------------------------------------
(* Specifications *)

\* the three engines side by side on small joint inputs
Init ==
    /\ \E in \in JointInputs :
          /\ orders_df = in.orders
          /\ order_lines_df = in.order_lines
          /\ invoices_df = in.invoices
    /\ skus_df = SkuCatalogue
    /\ suppliers_df = SupplierCatalogue
    /\ analysts_df = AnalystCatalogue
    /\ workload_system = <<>>
    /\ financial_system = <<>>
    /\ processing_system = <<>>
    /\ returns = NoReturns

Next ==
    \/ AnalystWorkloadKPI
    \/ calculate_workload_by_analyst
    \/ identify_specialization
    \/ FinancialPerformanceKPI
    \/ analyze_by_supplier
    \/ calculate_concentration_risk
    \/ identify_margin_opportunities
    \/ OperationalProcessingKPI
    \/ calculate_weekly_kpis
    \/ calculate_trend

Spec == Init /\ [][Next]_vars

\* the workload engine alone, on orders covering the complexity ranges
InitWorkload ==
    /\ orders_df \in WorkloadOrders
    /\ order_lines_df = OrderLinesUnmatched
    /\ skus_df = SkuCatalogue
    /\ suppliers_df = <<>>
    /\ analysts_df = <<>>
    /\ invoices_df = <<>>
    /\ workload_system = <<>>
    /\ financial_system = <<>>
    /\ processing_system = <<>>
    /\ returns = NoReturns

NextWorkload ==
    \/ AnalystWorkloadKPI
    \/ calculate_workload_by_analyst
    \/ identify_specialization

SpecWorkload == InitWorkload /\ [][NextWorkload]_vars

\* the workload engine asked for the aggregate and for the imbalance of the load
NextImbalance ==
    \/ AnalystWorkloadKPI
    \/ calculate_workload_by_analyst
    \/ detect_workload_imbalance

SpecImbalance == InitWorkload /\ [][NextImbalance]_vars

\* the financial engine alone, on orders covering supplier shares and margins
InitFinancial ==
    /\ orders_df \in FinancialOrders
    /\ order_lines_df = <<>>
    /\ skus_df = <<>>
    /\ suppliers_df = SupplierCatalogue
    /\ analysts_df = <<>>
    /\ invoices_df = <<>>
    /\ workload_system = <<>>
    /\ financial_system = <<>>
    /\ processing_system = <<>>
    /\ returns = NoReturns

NextFinancial ==
    \/ FinancialPerformanceKPI
    \/ calculate_concentration_risk
    \/ identify_margin_opportunities

SpecFinancial == InitFinancial /\ [][NextFinancial]_vars

\* the financial engine with and without order lines, asked for the category analysis
InitCategory ==
    /\ orders_df \in MarginOrders
    /\ order_lines_df \in {<<>>, OrderLinesUnmatched, OrderLinesMatched}
    /\ skus_df = SkuCatalogue
    /\ suppliers_df = SupplierCatalogue
    /\ analysts_df = <<>>
    /\ invoices_df = <<>>
    /\ workload_system = <<>>
    /\ financial_system = <<>>
    /\ processing_system = <<>>
    /\ returns = NoReturns

NextCategory ==
    \/ FinancialPerformanceKPI
    \/ analyze_by_category
    \/ calculate_concentration_risk

SpecCategory == InitCategory /\ [][NextCategory]_vars

\* the KPI tracker alone, on processing records around a turn of the year
InitProcessing ==
    /\ orders_df = <<>>
    /\ order_lines_df = <<>>
    /\ skus_df = <<>>
    /\ suppliers_df = <<>>
    /\ analysts_df = <<>>
    /\ invoices_df \in ProcessingInvoices
    /\ workload_system = <<>>
    /\ financial_system = <<>>
    /\ processing_system = <<>>
    /\ returns = NoReturns

NextProcessing ==
    \/ OperationalProcessingKPI
    \/ calculate_weekly_kpis
    \/ calculate_trend

SpecProcessing == InitProcessing /\ [][NextProcessing]_vars

\* the KPI tracker asked for the issues of the current period, on records of one week
\* in every split between the analysts and on records around a turn of the year
InitIssues ==
    /\ orders_df = <<>>
    /\ order_lines_df = <<>>
    /\ skus_df = <<>>
    /\ suppliers_df = <<>>
    /\ analysts_df = AnalystCatalogue
    /\ invoices_df \in VolumeInvoices \cup {InvoicesWeekOne, InvoicesTwoYears}
    /\ workload_system = <<>>
    /\ financial_system = <<>>
    /\ processing_system = <<>>
    /\ returns = NoReturns

NextIssues ==
    \/ OperationalProcessingKPI
    \/ identify_performance_issues

SpecIssues == InitIssues /\ [][NextIssues]_vars

\* the workload engine and the KPI tracker on tables that may lack a column
InitSchema ==
    /\ orders_df \in SchemaOrders
    /\ order_lines_df = OrderLinesMatched
    /\ skus_df = SkuCatalogue
    /\ suppliers_df = SupplierCatalogue
    /\ analysts_df = AnalystCatalogue
    /\ invoices_df \in SchemaInvoices
    /\ workload_system = <<>>
    /\ financial_system = <<>>
    /\ processing_system = <<>>
    /\ returns = NoReturns

NextSchema ==
    \/ AnalystWorkloadKPI
    \/ calculate_workload_by_analyst
    \/ OperationalProcessingKPI
    \/ calculate_weekly_kpis

SpecSchema == InitSchema /\ [][NextSchema]_vars

\* the KPI tracker ingesting records dated around the turns of several years
InitIngestion ==
    /\ orders_df = <<>>
    /\ order_lines_df = <<>>
    /\ skus_df = <<>>
    /\ suppliers_df = <<>>
    /\ analysts_df = <<>>
    /\ invoices_df \in IngestionInvoices
    /\ workload_system = <<>>
    /\ financial_system = <<>>
    /\ processing_system = <<>>
    /\ returns = NoReturns

NextIngestion ==
    \/ OperationalProcessingKPI
    \/ calculate_weekly_kpis

SpecIngestion == InitIngestion /\ [][NextIngestion]_vars

\* the KPI tracker asked for weekly reports, on records around a turn of the year
InitReport ==
    /\ orders_df = <<>>
    /\ order_lines_df = <<>>
    /\ skus_df = <<>>
    /\ suppliers_df = <<>>
    /\ analysts_df = AnalystCatalogue
    /\ invoices_df \in ProcessingInvoices
    /\ workload_system = <<>>
    /\ financial_system = <<>>
    /\ processing_system = <<>>
    /\ returns = NoReturns

NextReport ==
    \/ OperationalProcessingKPI
    \/ generate_weekly_report

SpecReport == InitReport /\ [][NextReport]_vars

\* the KPI tracker asked for the team metrics and for the KPI table of each period
NextTeam ==
    \/ OperationalProcessingKPI
    \/ calculate_weekly_kpis_each_period
    \/ calculate_team_performance

SpecTeam == InitReport /\ [][NextTeam]_vars

-----------------------------------------------------------------------------
(* Properties *)

WorkloadRows == IF workload_system = <<>> THEN {} ELSE Range(workload_system[1].orders_df)

Expected(n) ==
    IF n <= 5 THEN "Muy Simple" ELSE IF n <= 20 THEN "Simple"
    ELSE IF n <= 50 THEN "Moderado" ELSE "Complejo"

\* C1: every order of the instance with an integer SKU count n >= 1 carries exactly the
\* category of the range holding n ([1,5] Muy Simple, [6,20] Simple, [21,50] Moderado,
\* [51,inf) Complejo) and that category's weight (1.0, 2.5, 5.0, 10.0), and among the
\* orders with n >= 1 the weight is non-decreasing in n.
C1_ClassifierRanges ==
    /\ \A r \in WorkloadRows : r.num_skus >= 1 =>
          /\ r.complexity = Expected(r.num_skus)
          /\ r.complexity_weight =
                (CASE r.complexity = "Muy Simple" -> 10 [] r.complexity = "Simple" -> 25
                   [] r.complexity = "Moderado" -> 50 [] r.complexity = "Complejo" -> 100)
    /\ \A r1, r2 \in WorkloadRows :
          (1 <= r1.num_skus /\ r1.num_skus <= r2.num_skus) =>
              r1.complexity_weight <= r2.complexity_weight

C1_Witness ==
    /\ workload_system # <<>>
    /\ \E r1, r2 \in WorkloadRows :
          /\ r1.num_skus = 50 /\ r1.complexity = "Moderado"
          /\ r2.num_skus = 51 /\ r2.complexity = "Complejo"

\* C2: in every table returned by calculate_workload_by_analyst, each analyst's
\* per-category breakdown counts add up to that analyst's total_tickets.
C2_BreakdownSumsToTickets ==
    \A tbl \in returns.calculate_workload_by_analyst :
        \A a \in DOMAIN tbl :
            SumOver(tbl[a].dist, DOMAIN tbl[a].dist) = tbl[a].total_tickets

C2_Witness ==
    \E tbl \in returns.calculate_workload_by_analyst :
        \E a \in DOMAIN tbl :
            /\ tbl[a].total_tickets = 3
            /\ Cardinality({c \in DOMAIN tbl[a].dist : tbl[a].dist[c] > 0}) = 2

\* C9: no instance is constructed from an order whose SKU count is 0 or negative
\* (the classifier rejects it instead of giving it a category and a weight).
C9_NonPositiveRejected ==
    \A r \in WorkloadRows : r.num_skus >= 1

\* C10: every analyst row returned by calculate_workload_by_analyst has a count for
\* each of the four complexity categories (0 where the analyst has no such order).
C10_AllCategoryColumns ==
    \A tbl \in returns.calculate_workload_by_analyst :
        \A a \in DOMAIN tbl : DOMAIN tbl[a].dist = CategoryNames

\* the orders of the instance (SKU counts >= 1) having no line whose sku is in the catalogue
HasMatchedLine(r) ==
    \E i \in DOMAIN order_lines_df :
        /\ order_lines_df[i].order_id = r.order_id
        /\ \E k \in DOMAIN skus_df : skus_df[k].sku = order_lines_df[i].sku
UnmatchedOrders ==
    IF \A o \in WorkloadRows : o.num_skus >= 1 THEN {r \in WorkloadRows : ~HasMatchedLine(r)}
    ELSE {}

\* C16: in every table returned by identify_specialization, the analyst of an order
\* with zero matched lines has a row (the order is not dropped), and an analyst whose
\* orders all have zero matched lines has the primary category 'Sin categoría'.
C16_UnmatchedOrdersLabelled ==
    \A tbl \in returns.identify_specialization :
        \A r \in UnmatchedOrders :
            /\ r.analyst_id \in DOMAIN tbl
            /\ (\A o \in WorkloadRows : o.analyst_id = r.analyst_id => o \in UnmatchedOrders)
                  => tbl[r.analyst_id].primary_category = "Sin categoría"

\* C17: a missing required column is reported at construction: no aggregation of a
\* constructed engine (calculate_workload_by_analyst of the workload engine,
\* calculate_weekly_kpis of the KPI tracker) ends in the error of a missing column.
C17_SchemaCheckedAtConstruction ==
    /\ \A out \in returns.calculate_workload_by_analyst : "raised" \notin DOMAIN out
    /\ \A p \in PeriodArgs : \A out \in returns.calculate_weekly_kpis[p] :
          "raised" \notin DOMAIN out

\* C13: whenever the orders (SKU counts >= 1) have at least one analyst and all analysts have the same
\* weighted workload (one analyst included), detect_workload_imbalance reports a
\* coefficient_variation of 0.
C13_EqualLoadsZeroVariation ==
    \A r \in returns.detect_workload_imbalance :
        (/\ \A i \in DOMAIN orders_df : orders_df[i].num_skus >= 1
         /\ r.max_workload # <<>>
         /\ r.max_workload = r.min_workload) =>
            (r.coefficient_variation # <<>> /\ r.coefficient_variation[1].num = 0)

\* the summed cost of supplier s in the caller's orders, and the suppliers present
CostOf(s) == SumSeq(SelectRows(orders_df, LAMBDA r : r.supplier_id = s), LAMBDA r : r.total_cost)
SuppliersPresent == {orders_df[i].supplier_id : i \in DOMAIN orders_df}
TotalCost == SumSeq(orders_df, LAMBDA r : r.total_cost)

\* the same in units of CostUnit, the largest common divisor of the order costs
CostUnit == GCDSeq(orders_df, LAMBDA r : r.total_cost)
UnitCostOf(s) == CostOf(s) \div CostUnit
UnitTotal == TotalCost \div CostUnit
SumSquares == SumOver([s \in SuppliersPresent |-> UnitCostOf(s) * UnitCostOf(s)], SuppliersPresent)

\* C3: with positive total cost, the hhi_index returned by calculate_concentration_risk
\* is the sum over suppliers of (supplier cost / total cost x 100) squared, rounded to
\* 2 decimals: 10000 when one supplier holds all the cost, 5000 for two suppliers of
\* equal cost, and always within 0..10000.
C3_HhiSumOfSquaredShares ==
    \A r \in returns.calculate_concentration_risk :
        TotalCost > 0 =>
            LET exact == 1000000 * SumSquares           \* hundredths, times UnitTotal^2
                got   == r.hhi_index * UnitTotal * UnitTotal
            IN  /\ 2 * (got - exact) <= UnitTotal * UnitTotal
                /\ 2 * (exact - got) <= UnitTotal * UnitTotal
                /\ 0 <= r.hhi_index /\ r.hhi_index <= 1000000
                /\ (\E s \in SuppliersPresent : CostOf(s) = TotalCost) => r.hhi_index = 1000000
                /\ (/\ Cardinality(SuppliersPresent) = 2
                    /\ \A s \in SuppliersPresent : 2 * CostOf(s) = TotalCost)
                       => r.hhi_index = 500000

C3_Witness ==
    /\ TotalCost > 0
    /\ Cardinality(SuppliersPresent) = 2
    /\ \A s \in SuppliersPresent : 2 * CostOf(s) = TotalCost
    /\ \E r \in returns.calculate_concentration_risk : r.hhi_index = 500000

\* C4: top5_concentration_pct is the share of the five largest suppliers; with fewer
\* than five suppliers it is 100, and it never exceeds 100.
C4_Top5Share ==
    \A r \in returns.calculate_concentration_risk :
        /\ r.total_suppliers < 5 => r.top5_concentration_pct = <<10000>>
        /\ r.top5_concentration_pct # <<>> => r.top5_concentration_pct[1] <= 10000

\* C11: with positive total cost and HHI the sum of squared percentage shares,
\* risk_level is Alto exactly when HHI > 2500, Moderado exactly when
\* 1500 < HHI <= 2500 and Bajo exactly when HHI <= 1500 (2500 is Moderado, 1500 is
\* Bajo); with zero total cost the index reported is 0 and the level is Bajo.
C11_RiskTiers ==
    \A r \in returns.calculate_concentration_risk :
        LET sq  == IF TotalCost > 0 THEN 10000 * SumSquares ELSE 0
            den == IF TotalCost > 0 THEN UnitTotal * UnitTotal ELSE 1
        IN  /\ (r.risk_level = "Alto")     <=> (sq > 2500 * den)
            /\ (r.risk_level = "Moderado") <=> (1500 * den < sq /\ sq <= 2500 * den)
            /\ (r.risk_level = "Bajo")     <=> (sq <= 1500 * den)
            /\ sq = 2500 * den => r.risk_level = "Moderado"
            /\ sq = 1500 * den => r.risk_level = "Bajo"

C11_Witness ==
    /\ TotalCost > 0
    /\ 10000 * SumSquares = 1500 * UnitTotal * UnitTotal
    /\ \E r \in returns.calculate_concentration_risk :
          r.hhi_index = 150000 /\ r.risk_level = "Bajo"

\* the steps of analyze_by_category on an engine constructed without order lines
CategoryCallWithoutLines ==
    /\ financial_system # <<>>
    /\ financial_system[1].order_lines_df = <<>>
    /\ returns'.analyze_by_category # returns.analyze_by_category

CategoryError ==
    [raised |-> <<[type    |-> "ValueError",
                   message |-> "Se requiere order_lines_df para análisis por categoría"]>>,
     value  |-> <<>>]

\* C12: on an engine constructed without order lines, analyze_by_category ends in the
\* ValueError whose message names order_lines_df and returns no table; the call leaves
\* the instance and the caller's tables as they were, and a later
\* calculate_concentration_risk still returns the result for the orders supplied.
C12_CategoryNeedsOrderLines ==
    /\ [][CategoryCallWithoutLines =>
              /\ returns'.analyze_by_category = {CategoryError}
              /\ financial_system' = financial_system
              /\ caller_tables' = caller_tables]_vars
    /\ [][(/\ CategoryError \in returns.analyze_by_category
           /\ returns'.calculate_concentration_risk # returns.calculate_concentration_risk)
              => \A r \in returns'.calculate_concentration_risk :
                     r.total_suppliers = Cardinality(SuppliersPresent)]_vars

C12_Witness ==
    /\ financial_system # <<>>
    /\ financial_system[1].order_lines_df = <<>>
    /\ order_lines_df # <<>>
    /\ returns.analyze_by_category = {CategoryError}
    /\ \E r \in returns.calculate_concentration_risk : r.total_suppliers = 2

\* C18: when there are orders and the total supplier cost is 0 (every total_cost 0), the
\* dictionary returned by calculate_concentration_risk flags the case: the top-5 share
\* is a value (not NaN), the result carries a flag besides its four entries, and the
\* undefined index is not classified as one of the risk levels.
C18_ZeroTotalFlagged ==
    \A r \in returns.calculate_concentration_risk :
        (orders_df # <<>> /\ TotalCost = 0) =>
            /\ r.top5_concentration_pct # <<>>
            /\ DOMAIN r # {"total_suppliers", "top5_concentration_pct", "hhi_index", "risk_level"}
            /\ r.risk_level \notin {"Alto", "Moderado", "Bajo"}

\* C6: identify_margin_opportunities(T) returns exactly the orders with margin_pct < T,
\* each once, with improvement_potential = T - margin_pct and
\* potential_additional_margin = total_cost x improvement_potential / 100 (cost 1000,
\* margin 5, T 15: 10 and 100), in non-increasing order of potential_additional_margin.
C6_MarginOpportunities ==
    \A T \in Thresholds : \A tbl \in returns.identify_margin_opportunities[T] :
        /\ {tbl[i].order_id : i \in DOMAIN tbl} =
              {orders_df[i].order_id : i \in {j \in DOMAIN orders_df : orders_df[j].margin_pct < T}}
        /\ \A i, j \in DOMAIN tbl : tbl[i].order_id = tbl[j].order_id => i = j
        /\ \A i \in DOMAIN tbl : \E j \in DOMAIN orders_df :
              /\ orders_df[j].order_id = tbl[i].order_id
              /\ tbl[i].total_cost = orders_df[j].total_cost
              /\ tbl[i].margin_pct = orders_df[j].margin_pct
              /\ tbl[i].improvement_potential = T - orders_df[j].margin_pct
              /\ 100 * tbl[i].potential_additional_margin =
                    100 * orders_df[j].total_cost * tbl[i].improvement_potential
              /\ (T = 15 /\ orders_df[j].total_cost = 1000 /\ orders_df[j].margin_pct = 5) =>
                    (tbl[i].improvement_potential = 10 /\ tbl[i].potential_additional_margin = 10000)
        /\ \A i, j \in DOMAIN tbl :
              i <= j => tbl[i].potential_additional_margin >= tbl[j].potential_additional_margin

C6_Witness ==
    \E tbl \in returns.identify_margin_opportunities[15] :
        /\ Len(tbl) = 2 /\ Len(orders_df) = 3
        /\ tbl[1].potential_additional_margin = 10000
        /\ tbl[2].potential_additional_margin = 5000
        /\ tbl[1].order_id > tbl[2].order_id

ProcessingRows == IF processing_system = <<>> THEN {} ELSE Range(processing_system[1].invoices_df)
MostRecentWeek == MaxOf({r.week : r \in ProcessingRows})
MostRecentYear == MaxOf({r.year : r \in ProcessingRows})

\* C5: every period queried by calculate_trend has a week number >= 1; with w the most
\* recent week and Y the current year, period i (from 0) is (Y, w-i) while w-i >= 1 and
\* (Y-1, w-i+52) once w-i < 1; for 4 periods from w = 2: (Y,2), (Y,1), (Y-1,52), (Y-1,51).
C5_TrendWeeksPositive ==
    \A t \in TrendArgs : \A out \in returns.calculate_trend[t] :
        /\ Len(out.periods) = t.weeks
        /\ \A k \in DOMAIN out.periods :
              LET i == k - 1
                  w == MostRecentWeek
                  Y == MostRecentYear
              IN  /\ out.periods[k].week >= 1
                  /\ w - i >= 1 => out.periods[k] = [week |-> w - i, year |-> Y]
                  /\ w - i < 1  => out.periods[k] = [week |-> w - i + 52, year |-> Y - 1]
        /\ (t.weeks = 4 /\ MostRecentWeek = 2) =>
              out.periods = << [week |-> 2,  year |-> MostRecentYear],
                               [week |-> 1,  year |-> MostRecentYear],
                               [week |-> 52, year |-> MostRecentYear - 1],
                               [week |-> 51, year |-> MostRecentYear - 1] >>

\* the latest (year, week) key carried by a record of the instance, and its analysts
MostRecentPeriod ==
    LET keys == {[week |-> r.week, year |-> r.year] : r \in ProcessingRows}
    IN  CHOOSE p \in keys : \A q \in keys : q.year * 100 + q.week <= p.year * 100 + p.week
MostRecentAnalysts ==
    {r.assigned_to : r \in {x \in ProcessingRows :
                                x.week = MostRecentPeriod.week /\ x.year = MostRecentPeriod.year}}

\* C14: the period used by default is the most recent (year, week) having a record:
\* calculate_weekly_kpis() returns the rows of the analysts of that period, tagged with
\* it, calculate_trend starts from it, and identify_performance_issues counts the
\* analysts of that period.
C14_DefaultPeriodMostRecent ==
    /\ \A tbl \in returns.calculate_weekly_kpis[<<>>] :
          /\ DOMAIN tbl = MostRecentAnalysts
          /\ \A a \in DOMAIN tbl :
                tbl[a].Semana = MostRecentPeriod.week /\ tbl[a].Anio = MostRecentPeriod.year
    /\ \A t \in TrendArgs : \A out \in returns.calculate_trend[t] :
          out.periods[1] = MostRecentPeriod
    /\ \A q \in QualityThresholds : \A r \in returns.identify_performance_issues[q] :
          r.summary.total_analysts = Cardinality(MostRecentAnalysts)

\* the records of the current period (the default period of the code: largest week
\* number, largest year), its analysts, and their Volume and Quality (tenths)
CurrentRows == {r \in ProcessingRows : r.week = MostRecentWeek /\ r.year = MostRecentYear}
CurrentAnalysts == {r.assigned_to : r \in CurrentRows}
VolumeOf(a) == Cardinality({r \in CurrentRows : r.assigned_to = a})
QualityOf(a) ==
    RoundHalfEven(1000 * Cardinality({r \in CurrentRows : r.assigned_to = a /\ ~r.has_error}),
                  VolumeOf(a))
TotalVolume == Cardinality(CurrentRows)

\* C15: low_quality holds exactly the analysts of the current period with Quality
\* strictly below the threshold, low_volume exactly those with Volume strictly below
\* half the mean Volume of the period's analysts (an analyst at the threshold or at
\* half the mean is in neither), each once, and the summary counts are the lengths
\* of the two lists.
C15_IssueLists ==
    \A q \in QualityThresholds : \A r \in returns.identify_performance_issues[q] :
        /\ Range(r.low_quality) = {a \in CurrentAnalysts : QualityOf(a) < q}
        /\ Range(r.low_volume) =
              {a \in CurrentAnalysts : 2 * Cardinality(CurrentAnalysts) * VolumeOf(a) < TotalVolume}
        /\ Len(r.low_quality) = Cardinality(Range(r.low_quality))
        /\ Len(r.low_volume) = Cardinality(Range(r.low_volume))
        /\ r.summary.analysts_with_quality_issues = Len(r.low_quality)
        /\ r.summary.analysts_with_volume_issues = Len(r.low_volume)
        /\ r.summary.total_analysts = Cardinality(CurrentAnalysts)

\* AN001 below half the mean and below the threshold, AN002 at exactly the threshold
C15_Witness ==
    \E r \in returns.identify_performance_issues[500] :
        /\ CurrentAnalysts = {"AN001", "AN002"}
        /\ VolumeOf("AN001") = 1 /\ VolumeOf("AN002") = 4
        /\ QualityOf("AN001") = 0 /\ QualityOf("AN002") = 500
        /\ r.low_quality = <<"AN001">>
        /\ r.low_volume = <<"AN001">>

\* at exactly half the mean Volume (1 of a mean of 2): not flagged
C15_WitnessHalfMean ==
    \E r \in returns.identify_performance_issues[950] :
        /\ VolumeOf("AN001") = 1 /\ VolumeOf("AN002") = 3
        /\ r.low_volume = <<>>

\* the ISO year of a date: that of the week the date belongs to
IsoYear(d) ==
    IF d.month = 1 /\ isocalendar_week(d) >= 52 THEN d.year - 1
    ELSE IF d.month = 12 /\ isocalendar_week(d) = 1 THEN d.year + 1
    ELSE d.year

\* C19: every record of the instance carries the ISO year and the ISO week of its
\* processed date, and two records processed in different ISO weeks never carry the
\* same (year, week) key.
C19_IsoYearWeekKeys ==
    /\ \A r \in ProcessingRows :
          /\ r.week = isocalendar_week(r.processed_date)
          /\ r.year = IsoYear(r.processed_date)
    /\ \A r1, r2 \in ProcessingRows :
          (\/ IsoYear(r1.processed_date) # IsoYear(r2.processed_date)
           \/ isocalendar_week(r1.processed_date) # isocalendar_week(r2.processed_date))
              => (r1.year # r2.year \/ r1.week # r2.week)

\* C20: a report asked for an explicit (week, year) completes without a lookup
\* failure, and when it has a table, its alerts and team summary are those of the
\* period of the table: every alerted analyst has a row in the table and the summary
\* counts the analysts of the table.  Stated for records of one calendar year, where
\* the most recent week and the most recent year belong to the same record.
RecordsOfOneYear ==
    /\ processing_system # <<>>
    /\ \A i, j \in DOMAIN processing_system[1].invoices_df :
          processing_system[1].invoices_df[i].processed_date.year
              = processing_system[1].invoices_df[j].processed_date.year

C20_ReportOnePeriod ==
    \A p \in PeriodArgs \ {<<>>} : \A named \in BOOLEAN :
        \A out \in returns.generate_weekly_report[p][named] :
            /\ RecordsOfOneYear => "raised" \notin DOMAIN out
            /\ RecordsOfOneYear /\ "table" \in DOMAIN out =>
                  LET shown == {out.table[i].assigned_to : i \in DOMAIN out.table}
                  IN  /\ out.period = p[1]
                      /\ \A i \in DOMAIN out.quality_alerts :
                            out.quality_alerts[i].analyst \in shown
                      /\ \A i \in DOMAIN out.volume_alerts :
                            out.volume_alerts[i].analyst \in shown
                      /\ out.summary.total_analysts = Cardinality(shown)

\* C21: the team metrics have one row per (year, week) of the records; for each of
\* them the KPI_1_Volumen of the analyst rows returned by calculate_weekly_kpis for
\* that period add up to the row's total_processed; every analyst row has a volume of
\* at least 1 and a quality between 0 and 100.
C21_VolumeSumsToTeamTotal ==
    /\ \A out \in returns.calculate_team_performance :
          /\ "raised" \notin DOMAIN out
          /\ DOMAIN out.team_metrics = team_periods(processing_system[1].invoices_df)
          /\ \A k \in DOMAIN out.team_metrics :
                \A tbl \in returns.calculate_weekly_kpis[<<[week |-> k.week, year |-> k.year]>>] :
                    SumOver([a \in DOMAIN tbl |-> tbl[a].KPI_1_Volumen], DOMAIN tbl)
                        = out.team_metrics[k].total_processed
    /\ \A p \in RecordPeriodArgs : \A tbl \in returns.calculate_weekly_kpis[p] :
          /\ DOMAIN tbl # {}
          /\ \A a \in DOMAIN tbl :
                /\ tbl[a].KPI_1_Volumen >= 1
                /\ tbl[a].KPI_3_Calidad >= 0
                /\ tbl[a].KPI_3_Calidad <= 1000

\* a period with two analysts, one of them with an error, compared with its team row
C21_Witness ==
    \E out \in returns.calculate_team_performance :
        \E k \in DOMAIN out.team_metrics :
            \E tbl \in returns.calculate_weekly_kpis[<<[week |-> k.week, year |-> k.year]>>] :
                /\ Cardinality(DOMAIN tbl) = 2
                /\ out.team_metrics[k].total_processed = 2
                /\ \E a \in DOMAIN tbl : tbl[a].KPI_3_Calidad < 1000

\* C7: for every operation and argument, all the invocations made so far on an
\* instance returned one and the same output, whatever was called in between.
C7_RepeatedQueriesAgree ==
    /\ Cardinality(returns.calculate_workload_by_analyst) <= 1
    /\ Cardinality(returns.identify_specialization) <= 1
    /\ Cardinality(returns.analyze_by_supplier) <= 1
    /\ Cardinality(returns.calculate_concentration_risk) <= 1
    /\ \A T \in Thresholds : Cardinality(returns.identify_margin_opportunities[T]) <= 1
    /\ \A p \in PeriodArgs : Cardinality(returns.calculate_weekly_kpis[p]) <= 1
    /\ \A t \in TrendArgs : Cardinality(returns.calculate_trend[t]) <= 1

C7_Witness ==
    /\ returns.calculate_workload_by_analyst # {}
    /\ returns.identify_specialization # {}
    /\ returns.calculate_concentration_risk # {}
    /\ \A T \in Thresholds :
          \E tbl \in returns.identify_margin_opportunities[T] : Len(tbl) = 1
    /\ \A p \in PeriodArgs : returns.calculate_weekly_kpis[p] # {}
    /\ \A t \in TrendArgs : returns.calculate_trend[t] # {}

\* C8: no step of any engine (construction or operation) changes a caller-supplied
\* table: orders, order lines, SKUs, suppliers, analysts, invoices stay as supplied.
C8_CallerTablesUnchanged ==
    [][caller_tables' = caller_tables]_vars

C8_Witness ==
    /\ workload_system # <<>> /\ financial_system # <<>> /\ processing_system # <<>>
    /\ financial_system[1].order_lines_df # <<>>
    /\ \E r \in WorkloadRows : r.complexity = "Complejo"
    /\ \E r \in ProcessingRows : r.week = 1 /\ r.year = 2024
    /\ \E tbl \in returns.identify_margin_opportunities[15] :
          \E i \in DOMAIN tbl : tbl[i].improvement_potential = 10
    /\ returns.identify_specialization # {}
    /\ returns.analyze_by_supplier # {}

====
